---- MODULE Spec2Model ----
(***************************************************************************)
(* Model of the dr / o3-search program (@kazuph/mcp-o3-dr): the command    *)
(* line dispatcher (main, readStdin, parseArguments), the request          *)
(* lifecycle (progressWithTimeout) and its two drivers (runCLI and the     *)
(* o3-search tool handler), and the transcript stream of setupLogFile.     *)
(*                                                                         *)
(* One action is one turn of the Node.js event loop: a macrotask (process  *)
(* start, a stdin event, the settlement of the outbound call, a timer, the *)
(* completion of a file write) together with every microtask it queues     *)
(* (promise reactions, await continuations) and the unhandled-rejection    *)
(* pass that follows the microtask queue.                                  *)
(*                                                                         *)
(* Text is a sequence of pieces (strings); command line tokens and stdin   *)
(* data are sequences of single characters, because the code looks at      *)
(* their first character and trims them. Wall-clock values (Date.now(),    *)
(* the elapsed seconds printed in messages) are abstracted to the piece    *)
(* "<t>"; timers are armed or cancelled and fire at any later turn.        *)
(***************************************************************************)
EXTENDS Integers, Sequences, FiniteSets, TLC

VARIABLES
    args,           \* process.argv.slice(2)
    isTTY,          \* process.stdin.isTTY
    stdinOpen,      \* the host has not closed standard input yet
    data,           \* readStdin's accumulated data
    pc,             \* position of main(): start, readStdin, runCLI, server, done
    parsed,         \* main's `parsed` (result of parseArguments), when computed
    shown,          \* what parseArguments printed: none, help, version
    cliQuery,       \* the argument of runCLI, when it was called
    serverStarted,  \* server.connect(transport) was called
    proc,           \* running, exit0, exit1, crashed
    lc,             \* one request lifecycle per invocation
    stream,         \* the transcript stream of runCLI (logStream)
    unhandled,      \* promises rejected with no handler attached
    keyEnv,         \* process.env.OPENAI_API_KEY and the file ~/.openai.env
    config,         \* the module's config object (its apiKey)
    cache           \* the directory ~/.cache/dr and the dr runs that log into it

procVars == <<args, isTTY, stdinOpen, data, pc, parsed, shown, cliQuery,
              serverStarted, proc, lc, stream, unhandled>>

vars == <<args, isTTY, stdinOpen, data, pc, parsed, shown, cliQuery,
          serverStarted, proc, lc, stream, unhandled, keyEnv, config, cache>>

----------------------------------------------------------------------------
(* Bounds *)

MaxArgs == 2        \* longest command line
MaxStdin == 1       \* number of characters the host writes to stdin
MaxInv == 2         \* o3-search invocations in one server session
MaxTicks == 2       \* progress ticks of one lifecycle
MaxLines == 2       \* lines of the file ~/.openai.env
MaxSeconds == 2     \* wall-clock seconds that pass while dr runs start
MaxRuns == 2        \* dr search runs that share the cache directory
MaxRunWrites == 2   \* chunks one of these runs writes to its transcript

----------------------------------------------------------------------------
(* Text *)

TokH == <<"-", "h">>
TokHelp == <<"-", "-", "h", "e", "l", "p">>
TokV == <<"-", "v">>
TokVersion == <<"-", "-", "v", "e", "r", "s", "i", "o", "n">>
TokMcp == <<"m", "c", "p">>
TokP == <<"-", "p">>
TokX == <<"-", "x">>
TokFoo == <<"f", "o", "o">>
TokEmpty == <<>>

FirstTokens == {TokH, TokHelp, TokV, TokVersion, TokMcp, TokP, TokX, TokFoo, TokEmpty}
RestTokens == {TokFoo, TokMcp}

ArgLists ==
    {<<>>} \cup
    UNION {{<<f>> \o r : f \in FirstTokens, r \in [1..n -> RestTokens]} : n \in 0..(MaxArgs - 1)}

StdinChars == {"w", " "}
Whitespace == {" ", "\n"}

RECURSIVE join(_)
join(tokens) ==
    IF tokens = <<>> THEN <<>>
    ELSE IF Len(tokens) = 1 THEN tokens[1]
    ELSE tokens[1] \o <<" ">> \o join(Tail(tokens))

startsWith(s, c) == Len(s) > 0 /\ s[1] = c

RECURSIVE trimStart(_)
trimStart(s) ==
    IF s # <<>> /\ s[1] \in Whitespace THEN trimStart(Tail(s)) ELSE s

RECURSIVE trimEnd(_)
trimEnd(s) ==
    IF s # <<>> /\ s[Len(s)] \in Whitespace THEN trimEnd(SubSeq(s, 1, Len(s) - 1)) ELSE s

trim(s) == trimEnd(trimStart(s))

----------------------------------------------------------------------------
(* parseArguments *)

NoParse == [action |-> "unparsed", hasQuery |-> FALSE, query |-> <<>>]
Parsed(a) == [action |-> a, hasQuery |-> FALSE, query |-> <<>>]
ParsedSearch(q) == [action |-> "search", hasQuery |-> TRUE, query |-> q]

parseArgumentsNoLengthCheck(a) ==
    IF Len(a) = 0 THEN Parsed("help")
    ELSE IF a[1] = TokH \/ a[1] = TokHelp THEN Parsed("help")
    ELSE IF a[1] = TokV \/ a[1] = TokVersion THEN Parsed("version")
    ELSE IF a[1] = TokMcp THEN Parsed("mcp")
    ELSE IF a[1] = TokP THEN ParsedSearch(join(Tail(a)))
    ELSE ParsedSearch(join(a))

parseArguments(a) ==
    IF Len(a) = 0 THEN Parsed("help")
    ELSE IF a[1] = TokH \/ a[1] = TokHelp THEN Parsed("help")
    ELSE IF a[1] = TokV \/ a[1] = TokVersion THEN Parsed("version")
    ELSE IF a[1] = TokMcp THEN Parsed("mcp")
    ELSE IF a[1] = TokP /\ Len(a) > 1 THEN ParsedSearch(join(Tail(a)))
    ELSE ParsedSearch(join(a))

\* showHelp() / showVersion() are called inside parseArguments
Shown(p) ==
    IF p.action = "help" THEN "help"
    ELSE IF p.action = "version" THEN "version"
    ELSE "none"

----------------------------------------------------------------------------
(* loadApiKey. A line of ~/.openai.env is a sequence of pieces; the piece   *)
(* KeyPrefix stands for the text OPENAI_API_KEY=                            *)

KeyPrefix == "OPENAI_API_KEY="
Quotes == {"\"", "'"}

KeyLines ==
    { <<KeyPrefix, "a">>,
      <<KeyPrefix, "\"", "a", "\"">>,
      <<" ", KeyPrefix, "'", "b", " ">>,
      <<"#", KeyPrefix, "a">>,
      <<KeyPrefix>>,
      <<KeyPrefix, "\"">>,
      <<"X", "=", "a">>,
      <<KeyPrefix, "a", "\"", "b">> }

\* process.env.OPENAI_API_KEY: unset, empty, or a value
EnvValues ==
    { [set |-> FALSE, val |-> <<>>], [set |-> TRUE, val |-> <<>>],
      [set |-> TRUE, val |-> <<"e">>] }

\* ~/.openai.env: absent, present and unreadable, or its lines
EnvFiles ==
    { [exists |-> FALSE, readable |-> FALSE, lines |-> <<>>],
      [exists |-> TRUE, readable |-> FALSE, lines |-> <<>>] }
    \cup { [exists |-> TRUE, readable |-> TRUE, lines |-> ls] :
             ls \in UNION {[1..n -> KeyLines] : n \in 0..MaxLines} }

NoKey == [has |-> FALSE, val |-> <<>>, warned |-> FALSE]

\* .replace('OPENAI_API_KEY=', ''): the first occurrence is removed
RECURSIVE removeFirst(_, _)
removeFirst(s, piece) ==
    IF s = <<>> THEN <<>>
    ELSE IF s[1] = piece THEN Tail(s)
    ELSE <<s[1]>> \o removeFirst(Tail(s), piece)

\* .replace(/^["']|["']$/g, '')
stripQuotesLeadingOnly(v) == IF v # <<>> /\ v[1] \in Quotes THEN Tail(v) ELSE v

stripQuotes(v) ==
    LET a == IF v # <<>> /\ v[1] \in Quotes THEN Tail(v) ELSE v
    IN  IF a # <<>> /\ a[Len(a)] \in Quotes THEN SubSeq(a, 1, Len(a) - 1) ELSE a

\* the for loop over the lines of the file
RECURSIVE scanLines(_)
scanLines(ls) ==
    IF ls = <<>> THEN NoKey
    ELSE IF startsWith(trim(ls[1]), KeyPrefix)
         THEN [has |-> TRUE, val |-> stripQuotes(removeFirst(trim(ls[1]), KeyPrefix)),
               warned |-> FALSE]
         ELSE scanLines(Tail(ls))

loadApiKeyFileFirst(env, file) ==
    IF file.exists /\ file.readable /\ scanLines(file.lines).has THEN scanLines(file.lines)
    ELSE IF env.set /\ env.val # <<>> THEN [has |-> TRUE, val |-> env.val, warned |-> FALSE]
    ELSE NoKey

loadApiKey(env, file) ==
    IF env.set /\ env.val # <<>> THEN [has |-> TRUE, val |-> env.val, warned |-> FALSE]
    ELSE IF ~file.exists THEN NoKey
    ELSE IF ~file.readable THEN [has |-> FALSE, val |-> <<>>, warned |-> TRUE]
    ELSE scanLines(file.lines)

NotLoaded == [loaded |-> FALSE, apiKey |-> NoKey]

----------------------------------------------------------------------------
(* Values exchanged with the API client *)

Placeholder == <<"No response text available.">>
UnknownError == <<"Unknown error occurred">>

\* response.output_text: undefined, the empty string, or a text
Responses ==
    { [def |-> FALSE, val |-> <<>>],
      [def |-> TRUE, val |-> <<>>],
      [def |-> TRUE, val |-> <<"answer">>] }

\* what the outbound call rejects with: an Error, or a value that is not one
ApiErrors ==
    { [isError |-> TRUE, message |-> <<"401 Incorrect API key provided">>],
      [isError |-> FALSE, message |-> <<>>] }

TimeoutError ==
    [isError |-> TRUE, message |-> <<"Request timed out after ", "<timeoutMs/1000>", " seconds">>]

NoResponse == [def |-> FALSE, val |-> <<>>]
NoError == [isError |-> FALSE, message |-> <<>>]

\* response.output_text || "No response text available."
outputTextOrRaw(resp) == resp.val

outputTextOr(resp) == IF resp.def /\ resp.val # <<>> THEN resp.val ELSE Placeholder

\* error instanceof Error ? error.message : "Unknown error occurred"
errorMessage(e) == IF e.isError THEN e.message ELSE UnknownError

----------------------------------------------------------------------------
(* The transcript stream (fs.WriteStream): a write is handed to the stream, *)
(* the first one of an idle stream goes to the file system at once          *)
(* (inflight), later ones wait in the stream's buffer until it completes.   *)

Chunk(k, text) == [k |-> k, text |-> text]

NoStream ==
    [opens |-> 0, written |-> <<>>, inflight |-> <<>>, buffered |-> <<>>,
     file |-> <<>>, ends |-> 0, writeAfterEnd |-> 0]

\* fs.createWriteStream(logPath, { flags: 'w' })
setupLogFile(s) ==
    [opens |-> s.opens + 1, written |-> <<>>, inflight |-> <<>>, buffered |-> <<>>,
     file |-> <<>>, ends |-> 0, writeAfterEnd |-> 0]

\* logStream.write(chunk): `written` is everything handed to the stream; a
\* write after end() is refused by the stream and never reaches the file
write(s, c) ==
    IF s.ends > 0 THEN [s EXCEPT !.written = Append(@, c), !.writeAfterEnd = @ + 1]
    ELSE IF s.inflight = <<>>
         THEN [s EXCEPT !.written = Append(@, c), !.inflight = <<c>>]
         ELSE [s EXCEPT !.written = Append(@, c), !.buffered = Append(@, c)]

RECURSIVE writeAll(_, _)
writeAll(s, cs) == IF cs = <<>> THEN s ELSE writeAll(write(s, Head(cs)), Tail(cs))

\* logStream.end()
endNoop(s) == s

end(s) == [s EXCEPT !.ends = @ + 1]

\* process.exit(): the write the file system has in hand may or may not
\* reach the file; what the stream still buffers is dropped with the process
exitLoss(s, landed) ==
    [s EXCEPT !.file = IF landed THEN @ \o s.inflight ELSE @,
              !.inflight = <<>>, !.buffered = <<>>]

HeaderChunks(q) ==
    << Chunk("Title", <<"# Deep Research Log">>),
       Chunk("Date", <<"**Date**: ", "<t>">>),
       Chunk("Query", <<"**Query**: ">> \o q),
       Chunk("Rule", <<"---">>),
       Chunk("Processing", <<"## Processing">>),
       Chunk("Started", <<"Started: ", "<t>">>),
       Chunk("Calling", <<"Calling OpenAI o3 model...">>) >>

ProgressChunkOffByOne(n) ==
    Chunk("Progress", <<"Progress: Still processing... (", "<t>", "s elapsed, check ",
                        ToString(n - 1), ")", " - ", "<t>">>)

ProgressChunk(n) ==
    Chunk("Progress", <<"Progress: Still processing... (", "<t>", "s elapsed, check ",
                        ToString(n), ")", " - ", "<t>">>)

ResultChunks(text) ==
    << Chunk("ResultsHead", <<"## Results">>),
       Chunk("CompletedIn", <<"Completed in ", "<t>", "s">>),
       Chunk("ResultText", text),
       Chunk("ResultRule", <<"---">>),
       Chunk("Completed", <<"**Completed**: ", "<t>">>) >>

ErrorChunks(msg, n) ==
    << Chunk("ErrorHead", <<"## Error">>),
       Chunk("FailedAfter", <<"Failed after ", "<t>", "s">>),
       Chunk("ErrorMsg", msg) >>
    \o (IF n > 0
        THEN << Chunk("ChecksCompleted", <<"Progress checks completed: ", ToString(n)>>) >>
        ELSE <<>>)
    \o << Chunk("Failed", <<"**Failed**: ", "<t>">>) >>

----------------------------------------------------------------------------
(* The request lifecycle *)

IdleLc ==
    [phase |-> "idle", requests |-> 0, call |-> "none",
     timeoutArmed |-> FALSE, intervalArmed |-> FALSE, timeoutFired |-> FALSE,
     issuedAtArm |-> 0, race |-> "none", progressCount |-> 0, consoleTicks |-> 0,
     produced |-> 0, outcome |-> "none", resp |-> NoResponse, err |-> NoError,
     content |-> <<>>, errPrinted |-> <<>>]

Ids == 1..MaxInv

\* openai.responses.create({...}): one outbound request, pending
issueRequest(l) ==
    [l EXCEPT !.phase = "waiting", !.requests = @ + 1, !.call = "pending"]

\* progressWithTimeout up to its return: both timers armed, the race pending;
\* issuedAtArm is the number of requests issued by the time the timers are armed
progressWithTimeout(l) ==
    [l EXCEPT !.timeoutArmed = TRUE, !.intervalArmed = TRUE, !.race = "pending",
              !.issuedAtArm = l.requests]

\* the setTimeout callback
timeoutCallbackAbortsCall(l) ==
    [l EXCEPT !.timeoutArmed = FALSE, !.intervalArmed = FALSE, !.timeoutFired = TRUE,
              !.call = "aborted"]

timeoutCallbackKeepInterval(l) ==
    [l EXCEPT !.timeoutArmed = FALSE, !.timeoutFired = TRUE]

timeoutCallback(l) ==
    [l EXCEPT !.timeoutArmed = FALSE, !.timeoutFired = TRUE, !.intervalArmed = FALSE]

\* the promise.finally callback
finallyCallbackKeepTimeout(l) == [l EXCEPT !.intervalArmed = FALSE]

finallyCallbackKeepInterval(l) == [l EXCEPT !.timeoutArmed = FALSE]

finallyCallback(l) == [l EXCEPT !.timeoutArmed = FALSE, !.intervalArmed = FALSE]

\* Promise.race: only the first settlement of its inputs settles it
raceWonAlways(l) == TRUE

raceWon(l) == l.race = "pending"

\* the progress callback (of the handler, and of runCLI before its log write)
progressCallbackClearsTimeout(l) ==
    [l EXCEPT !.progressCount = @ + 1, !.consoleTicks = @ + 1, !.timeoutArmed = FALSE]

progressCallback(l) ==
    [l EXCEPT !.progressCount = @ + 1, !.consoleTicks = @ + 1]

\* console.error(`Error after ${totalTime}s:`, errorMessage)
ErrorLine(e) == <<"Error after ", "<t>", "s:">> \o errorMessage(e)

HandlerErrorText(e, n) ==
    <<"Error after ", "<t>", "s: ">> \o errorMessage(e)
    \o (IF n > 0
        THEN <<" (Progress was tracked with ", ToString(n), " checks)">>
        ELSE <<>>)

OutcomeOf(e) == IF e = TimeoutError THEN "Timeout" ELSE "ApiError"

\* the handler after the await returned a response
handlerReturnRaw(l, resp) ==
    [l EXCEPT !.phase = "returned", !.race = "fulfilled", !.produced = @ + 1,
              !.outcome = "Success",
              !.content = << [type |-> "text", text |-> outputTextOrRaw(resp)] >>]

handlerReturn(l, resp) ==
    [l EXCEPT !.phase = "returned", !.race = "fulfilled", !.produced = @ + 1,
              !.outcome = "Success",
              !.content = << [type |-> "text", text |-> outputTextOr(resp)] >>]

\* the handler's catch block
handlerCatchRetries(l, e) ==
    [l EXCEPT !.phase = "waiting", !.requests = @ + 1, !.call = "pending", !.err = e]

handlerCatch(l, e) ==
    [l EXCEPT !.phase = "returned", !.race = "rejected", !.produced = @ + 1,
              !.outcome = OutcomeOf(e), !.err = e, !.errPrinted = ErrorLine(e),
              !.content = << [type |-> "text", text |-> HandlerErrorText(e, l.progressCount)] >>]

\* runCLI after the await returned or threw: the lifecycle part
cliReturn(l) ==
    [l EXCEPT !.phase = "returned", !.race = "fulfilled", !.produced = @ + 1,
              !.outcome = "Success"]

cliCatchSilent(l, e) ==
    [l EXCEPT !.phase = "returned", !.race = "rejected", !.produced = @ + 1,
              !.outcome = OutcomeOf(e), !.err = e]

cliCatch(l, e) ==
    [l EXCEPT !.phase = "returned", !.race = "rejected", !.produced = @ + 1,
              !.outcome = OutcomeOf(e), !.err = e, !.errPrinted = ErrorLine(e)]

\* process.exit(1) at the end of runCLI's catch block
cliCatchExitZero == "exit0"

cliCatchExit == "exit1"

----------------------------------------------------------------------------
(* State after the module's top-level code ran, before main() *)

\* the key in the environment, no file
DefaultKeyEnv ==
    [env |-> [set |-> TRUE, val |-> <<"e">>],
     file |-> [exists |-> FALSE, readable |-> FALSE, lines |-> <<>>]]

\* no transcript file yet, no run has opened one
EmptyCache ==
    [now |-> 0,
     files |-> [f \in 0..MaxSeconds |-> [exists |-> FALSE, cells |-> <<>>]],
     run |-> [r \in 1..MaxRuns |-> [path |-> -1, written |-> 0]]]

Init ==
    /\ args \in ArgLists
    /\ isTTY \in BOOLEAN
    /\ stdinOpen = TRUE
    /\ data = <<>>
    /\ pc = "start"
    /\ parsed = NoParse
    /\ shown = "none"
    /\ cliQuery = [called |-> FALSE, query |-> <<>>]
    /\ serverStarted = FALSE
    /\ proc = "running"
    /\ lc = [i \in Ids |-> IdleLc]
    /\ stream = NoStream
    /\ unhandled = 0
    /\ keyEnv = DefaultKeyEnv
    /\ config = [loaded |-> TRUE, apiKey |-> loadApiKey(keyEnv.env, keyEnv.file)]
    /\ cache = EmptyCache

Truthy(sd) == ~sd.isNull /\ sd.text # <<>>

\* runCLI(query) up to its await
RunCLIStart(q) ==
    /\ cliQuery' = [called |-> TRUE, query |-> q]
    /\ stream' = writeAll(setupLogFile(stream), HeaderChunks(q))
    /\ lc' = [lc EXCEPT ![1] = progressWithTimeout(issueRequest(@))]
    /\ pc' = "runCLI"
    /\ UNCHANGED serverStarted

\* case 'mcp': server.connect(transport)
ServerStart ==
    /\ serverStarted' = TRUE
    /\ pc' = "server"
    /\ UNCHANGED <<cliQuery, stream, lc>>

MainDone ==
    /\ pc' = "done"
    /\ UNCHANGED <<cliQuery, stream, lc, serverStarted>>

\* the switch over parsed.action; merged is the query of the search case
SwitchAlwaysRuns(p, runSearch, q) ==
    IF p.action = "mcp" THEN ServerStart
    ELSE IF p.action = "search" THEN RunCLIStart(q)
    ELSE MainDone

Switch(p, runSearch, q) ==
    IF p.action = "mcp" THEN ServerStart
    ELSE IF p.action = "search" /\ runSearch THEN RunCLIStart(q)
    ELSE MainDone

\* the query main builds from the parsed query and the stdin text
mergedNoSpace(q, text) == q \o text

merged(q, text) == q \o <<" ">> \o text

\* firstArg && (firstArg === 'mcp' || firstArg.startsWith('-'))
isFlagOrMcp(first) == first # <<>> /\ (first = TokMcp \/ startsWith(first, "-"))

\* main() after `await readStdin()` returned sd
Dispatch(sd) ==
    IF Truthy(sd) /\ Len(args) = 0
    THEN /\ RunCLIStart(sd.text)
         /\ UNCHANGED <<parsed, shown>>
    ELSE IF Truthy(sd) /\ Len(args) > 0
    THEN IF isFlagOrMcp(args[1])
         THEN /\ parsed' = parseArguments(args)
              /\ shown' = Shown(parsed')
              /\ Switch(parsed', TRUE, merged(parsed'.query, sd.text))
         ELSE /\ RunCLIStart(merged(join(args), sd.text))
              /\ UNCHANGED <<parsed, shown>>
    ELSE /\ parsed' = parseArguments(args)
         /\ shown' = Shown(parsed')
         /\ Switch(parsed', parsed'.query # <<>>, parsed'.query)

\* main() up to `await readStdin()`: null at once on a terminal
MainStart ==
    /\ pc = "start" /\ proc = "running"
    /\ IF isTTY
       THEN Dispatch([isNull |-> TRUE, text |-> <<>>])
       ELSE /\ pc' = "readStdin"
            /\ UNCHANGED <<parsed, shown, cliQuery, serverStarted, lc, stream>>
    /\ UNCHANGED <<args, isTTY, stdinOpen, data, proc, unhandled>>

\* process.stdin.on('readable'): data += chunk
StdinReadable(c) ==
    /\ pc = "readStdin" /\ proc = "running" /\ stdinOpen
    /\ Len(data) < MaxStdin
    /\ data' = Append(data, c)
    /\ UNCHANGED <<args, isTTY, stdinOpen, pc, parsed, shown, cliQuery,
                   serverStarted, proc, lc, stream, unhandled>>

\* the host closes standard input; process.stdin.on('end') resolves readStdin
StdinEnd ==
    /\ pc # "start" /\ proc = "running" /\ stdinOpen
    /\ stdinOpen' = FALSE
    /\ IF pc = "readStdin"
       THEN Dispatch([isNull |-> FALSE, text |-> trim(data)])
       ELSE UNCHANGED <<pc, parsed, shown, cliQuery, serverStarted, lc, stream>>
    /\ UNCHANGED <<args, isTTY, data, proc, unhandled>>

----------------------------------------------------------------------------
(* The lifecycle's events *)

\* the surface that drives lifecycle 1: runCLI, or else the tool handler
OnCLI == cliQuery.called

\* the host sends a tools/call for o3-search: the handler up to its await
InvokeLogging(i) ==
    /\ proc = "running" /\ serverStarted /\ stdinOpen
    /\ lc[i].phase = "idle"
    /\ (IF i = 1 THEN TRUE ELSE lc[i - 1].phase # "idle")
    /\ lc' = [lc EXCEPT ![i] = progressWithTimeout(issueRequest(@))]
    /\ stream' = writeAll(setupLogFile(stream), HeaderChunks(<<>>))
    /\ UNCHANGED <<args, isTTY, stdinOpen, data, pc, parsed, shown, cliQuery,
                   serverStarted, proc, unhandled>>

Invoke(i) ==
    /\ proc = "running" /\ serverStarted /\ stdinOpen
    /\ lc[i].phase = "idle"
    /\ (IF i = 1 THEN TRUE ELSE lc[i - 1].phase # "idle")
    /\ lc' = [lc EXCEPT ![i] = progressWithTimeout(issueRequest(@))]
    /\ UNCHANGED <<args, isTTY, stdinOpen, data, pc, parsed, shown, cliQuery,
                   serverStarted, proc, stream, unhandled>>

\* setInterval fires: the progress callback of runCLI or of the handler
Tick(i) ==
    /\ proc = "running"
    /\ lc[i].intervalArmed
    /\ lc[i].progressCount < MaxTicks
    /\ lc' = [lc EXCEPT ![i] = progressCallback(@)]
    /\ stream' = IF OnCLI THEN write(stream, ProgressChunk(lc[i].progressCount + 1))
                 ELSE stream
    /\ UNCHANGED <<args, isTTY, stdinOpen, data, pc, parsed, shown, cliQuery,
                   serverStarted, proc, unhandled>>

\* the outbound call resolves: the finally callback, then the race and the
\* awaiting caller's continuation
CallResolve(i, resp) ==
    /\ proc = "running"
    /\ lc[i].call = "pending"
    /\ LET l1 == finallyCallback([lc[i] EXCEPT !.call = "resolved", !.resp = resp])
       IN  IF raceWon(lc[i])
           THEN IF OnCLI
                THEN /\ lc' = [lc EXCEPT ![i] = cliReturn(l1)]
                     /\ stream' = end(writeAll(stream, ResultChunks(outputTextOr(resp))))
                     /\ pc' = "done"
                ELSE /\ lc' = [lc EXCEPT ![i] = handlerReturn(l1, resp)]
                     /\ UNCHANGED <<stream, pc>>
           ELSE /\ lc' = [lc EXCEPT ![i] = l1]
                /\ UNCHANGED <<stream, pc>>
    /\ UNCHANGED <<args, isTTY, stdinOpen, data, parsed, shown, cliQuery,
                   serverStarted, proc, unhandled>>

\* the outbound call rejects: the finally callback, then the race and the
\* caller's catch block. runCLI's catch ends in process.exit(1); otherwise the
\* promise that promise.finally(...) returned is rejected with no handler, and
\* Node ends the process after the microtask queue
CallReject(i, e) ==
    /\ proc = "running"
    /\ lc[i].call = "pending"
    /\ LET l1 == finallyCallback([lc[i] EXCEPT !.call = "rejected"])
       IN  IF raceWon(lc[i]) /\ OnCLI
           THEN /\ lc' = [lc EXCEPT ![i] = cliCatch(l1, e)]
                /\ \E landed \in BOOLEAN :
                      stream' = exitLoss(end(writeAll(stream,
                                    ErrorChunks(errorMessage(e), l1.progressCount))), landed)
                /\ proc' = cliCatchExit
                /\ UNCHANGED unhandled
           ELSE /\ lc' = [lc EXCEPT ![i] = IF raceWon(lc[i]) THEN handlerCatch(l1, e) ELSE l1]
                /\ unhandled' = unhandled + 1
                /\ proc' = "crashed"
                /\ UNCHANGED stream
    /\ UNCHANGED <<args, isTTY, stdinOpen, data, pc, parsed, shown, cliQuery, serverStarted>>

\* setTimeout fires: its callback rejects timeoutPromise, then the race and
\* the caller's catch block
TimeoutFire(i) ==
    /\ proc = "running"
    /\ lc[i].timeoutArmed
    /\ LET l1 == timeoutCallback(lc[i])
       IN  IF raceWon(lc[i]) /\ OnCLI
           THEN /\ lc' = [lc EXCEPT ![i] = cliCatch(l1, TimeoutError)]
                /\ \E landed \in BOOLEAN :
                      stream' = exitLoss(end(writeAll(stream,
                                    ErrorChunks(errorMessage(TimeoutError), l1.progressCount))),
                                         landed)
                /\ proc' = cliCatchExit
           ELSE /\ lc' = [lc EXCEPT ![i] = IF raceWon(lc[i]) THEN handlerCatch(l1, TimeoutError)
                                           ELSE l1]
                /\ UNCHANGED <<stream, proc>>
    /\ UNCHANGED <<args, isTTY, stdinOpen, data, pc, parsed, shown, cliQuery,
                   serverStarted, unhandled>>

\* the file system completes the write it has in hand; the stream hands it
\* everything buffered meanwhile
WriteDone ==
    /\ proc = "running"
    /\ stream.inflight # <<>>
    /\ stream' = [stream EXCEPT !.file = @ \o stream.inflight,
                                !.inflight = stream.buffered,
                                !.buffered = <<>>]
    /\ UNCHANGED <<args, isTTY, stdinOpen, data, pc, parsed, shown, cliQuery,
                   serverStarted, proc, lc, unhandled>>

\* nothing is left for the event loop: the process ends with status 0
ProcessExit ==
    /\ proc = "running"
    /\ pc \in {"done", "server"}
    /\ \A i \in Ids : ~lc[i].timeoutArmed /\ ~lc[i].intervalArmed /\ lc[i].call # "pending"
    /\ stream.inflight = <<>>
    /\ (pc = "server" => ~stdinOpen)
    /\ proc' = "exit0"
    /\ UNCHANGED <<args, isTTY, stdinOpen, data, pc, parsed, shown, cliQuery,
                   serverStarted, lc, stream, unhandled>>

Next ==
    /\ \/ MainStart
       \/ \E c \in StdinChars : StdinReadable(c)
       \/ StdinEnd
       \/ \E i \in Ids : Invoke(i)
       \/ \E i \in Ids : Tick(i)
       \/ \E i \in Ids, resp \in Responses : CallResolve(i, resp)
       \/ \E i \in Ids, e \in ApiErrors : CallReject(i, e)
       \/ \E i \in Ids : TimeoutFire(i)
       \/ WriteDone
       \/ ProcessExit
    /\ UNCHANGED <<keyEnv, config, cache>>

Spec == Init /\ [][Next]_vars

----------------------------------------------------------------------------
(* The module's top-level code: config.apiKey = loadApiKey(), for every    *)
(* environment value and every file of the bounds                          *)

\* a process that has not started main()
ProcessAtStart ==
    /\ args = <<>> /\ isTTY = TRUE /\ stdinOpen = TRUE /\ data = <<>>
    /\ pc = "start" /\ parsed = NoParse /\ shown = "none"
    /\ cliQuery = [called |-> FALSE, query |-> <<>>]
    /\ serverStarted = FALSE /\ proc = "running"
    /\ lc = [i \in Ids |-> IdleLc]
    /\ stream = NoStream /\ unhandled = 0

InitKey ==
    /\ ProcessAtStart
    /\ keyEnv \in [env : EnvValues, file : EnvFiles]
    /\ config = NotLoaded
    /\ cache = EmptyCache

LoadConfig ==
    /\ ~config.loaded
    /\ config' = [loaded |-> TRUE, apiKey |-> loadApiKey(keyEnv.env, keyEnv.file)]
    /\ UNCHANGED <<procVars, keyEnv, cache>>

NextKey == LoadConfig

SpecKey == InitKey /\ [][NextKey]_vars

----------------------------------------------------------------------------
(* Vocabulary of the properties *)

Outcomes == {"Success", "ApiError", "Timeout"}

Settled(l) == l.call \in {"resolved", "rejected"}

\* the outbound call settled and the timeout had not fired
SettledFirst(l) == Settled(l) /\ ~l.timeoutFired

\* the section of the transcript a written chunk belongs to
Section(c) ==
    IF c.k \in {"Title", "Date", "Query", "Rule", "Processing", "Started", "Calling"}
    THEN "header"
    ELSE IF c.k = "Progress" THEN "progress"
    ELSE IF c.k \in {"ResultsHead", "CompletedIn", "ResultText", "ResultRule"} THEN "result"
    ELSE IF c.k \in {"ErrorHead", "FailedAfter", "ErrorMsg", "ChecksCompleted"} THEN "error"
    ELSE "footer"

Rank(c) ==
    IF Section(c) = "header" THEN 0
    ELSE IF Section(c) = "progress" THEN 1
    ELSE IF Section(c) = "footer" THEN 3
    ELSE 2

Count(w, K) == Cardinality({j \in 1..Len(w) : w[j].k \in K})

ProgressLines(w) == Count(w, {"Progress"})

Has(w, sec) == \E j \in 1..Len(w) : Section(w[j]) = sec

\* tokens joined by single spaces
RECURSIVE SpaceJoined(_)
SpaceJoined(ts) ==
    IF Len(ts) = 0 THEN <<>>
    ELSE IF Len(ts) = 1 THEN ts[1]
    ELSE SpaceJoined(SubSeq(ts, 1, Len(ts) - 1)) \o <<" ">> \o ts[Len(ts)]

\* the text readStdin yields: nothing on a terminal
StdinText == IF isTTY THEN <<>> ELSE trim(data)

Dispatched == pc \notin {"start", "readStdin"}

----------------------------------------------------------------------------
(* C1: every lifecycle produces exactly one outcome out of Success,        *)
(* ApiError and Timeout: none before the call settled or the timeout       *)
(* fired, one as soon as either happened, and never a second one, also     *)
(* when the call settles after the timeout fired.                          *)
C1_ExactlyOneOutcome ==
    \A i \in Ids :
        /\ lc[i].produced <= 1
        /\ (lc[i].produced = 1 <=> lc[i].outcome \in Outcomes)
        /\ (lc[i].produced = 0 <=> lc[i].outcome = "none")
        /\ (Settled(lc[i]) \/ lc[i].timeoutFired => lc[i].produced = 1)
        /\ (lc[i].produced = 1 => Settled(lc[i]) \/ lc[i].timeoutFired)

C1_Witness ==
    \E i \in Ids :
        lc[i].timeoutFired /\ lc[i].call = "resolved" /\ lc[i].produced = 1

(* C2: when the timeout fires with the call still pending the outcome is   *)
(* Timeout, and from then on the lifecycle emits no progress tick: the     *)
(* check counter, the console progress lines and the transcript progress   *)
(* lines stay as they are, whatever number of ticks fired before.          *)
C2_TimeoutStopsTicks ==
    [][\A i \in Ids :
          /\ (~lc[i].timeoutFired /\ lc'[i].timeoutFired /\ lc[i].call = "pending"
                 => lc'[i].outcome = "Timeout" /\ ~lc'[i].intervalArmed)
          /\ (lc[i].timeoutFired
                 => /\ lc'[i].outcome = "Timeout"
                    /\ lc'[i].progressCount = lc[i].progressCount
                    /\ lc'[i].consoleTicks = lc[i].consoleTicks
                    /\ ProgressLines(stream'.written) = ProgressLines(stream.written))]_vars

C2_Witness ==
    \E i \in Ids :
        /\ lc[i].timeoutFired /\ lc[i].outcome = "Timeout"
        /\ lc[i].progressCount > 0 /\ lc[i].progressCount < MaxTicks
        /\ proc = "running"

(* C3: when the call settles before the timeout fires the outcome is       *)
(* Success or ApiError, both timers are cancelled by the time the caller   *)
(* has resumed, and afterwards the timeout never fires and no progress     *)
(* tick is emitted.                                                        *)
C3_SettledFirstNeverTimeout ==
    [][\A i \in Ids :
          /\ (SettledFirst(lc'[i])
                 => /\ lc'[i].outcome \in {"Success", "ApiError"}
                    /\ ~lc'[i].timeoutArmed /\ ~lc'[i].intervalArmed)
          /\ (SettledFirst(lc[i])
                 => /\ SettledFirst(lc'[i])
                    /\ lc'[i].progressCount = lc[i].progressCount
                    /\ lc'[i].consoleTicks = lc[i].consoleTicks
                    /\ ProgressLines(stream'.written) = ProgressLines(stream.written))]_vars

C3_Witness ==
    /\ OnCLI /\ proc = "running"
    /\ lc[1].call = "resolved" /\ ~lc[1].timeoutFired
    /\ lc[1].outcome = "Success" /\ lc[1].progressCount > 0
    /\ stream.inflight # <<>>

(* C4: on the server surface, after an o3-search invocation ended in       *)
(* ApiError or Timeout the process has not crashed and no promise was left *)
(* rejected without a handler.                                             *)
C4_ServerSurvivesFailure ==
    \A i \in Ids :
        ~OnCLI /\ lc[i].outcome \in {"ApiError", "Timeout"}
            => proc # "crashed" /\ unhandled = 0

(* C5: every o3-search invocation that ended returned exactly one text     *)
(* content block: the response text, or "No response text available."      *)
(* when the API returned no text, on Success; a formatted error string     *)
(* carrying the error message on ApiError and Timeout. No outcome leaves   *)
(* the handler any other way.                                              *)
C5_HandlerReturnsOneTextBlock ==
    \A i \in Ids :
        ~OnCLI /\ lc[i].produced > 0 =>
            /\ lc[i].phase = "returned"
            /\ Len(lc[i].content) = 1
            /\ lc[i].content[1].type = "text"
            /\ LET text == lc[i].content[1].text
               IN  IF lc[i].outcome = "Success"
                   THEN IF lc[i].resp.def /\ lc[i].resp.val # <<>>
                        THEN text = lc[i].resp.val
                        ELSE text = <<"No response text available.">>
                   ELSE /\ Len(text) >= 4
                        /\ text[1] = "Error after "
                        /\ LET msg == IF lc[i].err.isError THEN lc[i].err.message
                                      ELSE <<"Unknown error occurred">>
                           IN  SubSeq(text, 4, 3 + Len(msg)) = msg

C5_Witness ==
    \E i \in Ids :
        /\ ~OnCLI /\ lc[i].phase = "returned" /\ lc[i].outcome = "Success"
        /\ ~lc[i].resp.def
        /\ lc[i].content[1].text = <<"No response text available.">>

(* C6: when the process of a CLI search has exited, the result-or-error    *)
(* section and the footer that runCLI wrote are in the transcript file.    *)
C6_TranscriptDurableAtExit ==
    OnCLI /\ proc \in {"exit0", "exit1"} =>
        /\ Has(stream.file, "result") \/ Has(stream.file, "error")
        /\ Has(stream.file, "footer")
        /\ stream.file = stream.written

(* C7: the chunks handed to the transcript of a CLI search are the header  *)
(* (complete once the request is issued), then progress lines, then one    *)
(* result section or one error section, then the footer: nothing follows a *)
(* later section with an earlier one, and no run has both a result and an  *)
(* error section.                                                          *)
C7_TranscriptOrder ==
    OnCLI =>
        LET w == stream.written
        IN  /\ (lc[1].requests > 0
                   => Len(w) >= 7 /\ \A j \in 1..7 : Section(w[j]) = "header")
            /\ \A j, k \in 1..Len(w) : j < k => Rank(w[j]) <= Rank(w[k])
            /\ ~(Has(w, "result") /\ Has(w, "error"))
            /\ Count(w, {"ResultsHead", "ErrorHead"}) <= 1
            /\ Count(w, {"Completed", "Failed"}) <= 1
            /\ (lc[1].produced > 0
                   => /\ Count(w, {"ResultsHead", "ErrorHead"}) = 1
                      /\ Count(w, {"Completed", "Failed"}) = 1)
            /\ (lc[1].produced = 0 => ~Has(w, "result") /\ ~Has(w, "error") /\ ~Has(w, "footer"))

C7_Witness ==
    /\ OnCLI /\ lc[1].outcome = "Timeout"
    /\ ProgressLines(stream.written) = 2
    /\ Has(stream.written, "error") /\ Has(stream.written, "footer")

(* C8: invoked with first token mcp, the server session is started while   *)
(* the host still holds standard input open: main does not wait for        *)
(* end-of-file on standard input before it starts the server.              *)
C8_ServerStartsWithoutEOF ==
    pc # "start" /\ Len(args) > 0 /\ args[1] = TokMcp /\ stdinOpen /\ proc = "running"
        => serverStarted

(* C9: what main resolves. With a non-empty stdin text s: no args, search  *)
(* for s; first token mcp, server start; -h/--help or -v/--version, help   *)
(* or version and no search; any other args, search for the query of       *)
(* parseArguments(args), one space, s. Without stdin data the action and   *)
(* the query are those of parseArguments(args).                            *)
C9_MainResolution ==
    Dispatched =>
        LET s == StdinText
            p == parseArguments(args)
            searched(q) == cliQuery = [called |-> TRUE, query |-> q] /\ ~serverStarted
        IN  IF s # <<>>
            THEN IF Len(args) = 0 THEN searched(s) /\ shown = "none"
                 ELSE IF args[1] = TokMcp THEN serverStarted /\ ~cliQuery.called
                 ELSE IF args[1] \in {TokH, TokHelp}
                      THEN shown = "help" /\ ~cliQuery.called /\ ~serverStarted
                 ELSE IF args[1] \in {TokV, TokVersion}
                      THEN shown = "version" /\ ~cliQuery.called /\ ~serverStarted
                 ELSE searched(p.query \o <<" ">> \o s)
            ELSE /\ parsed = p
                 /\ (p.action = "help" => shown = "help" /\ ~cliQuery.called /\ ~serverStarted)
                 /\ (p.action = "version"
                        => shown = "version" /\ ~cliQuery.called /\ ~serverStarted)
                 /\ (p.action = "mcp" => serverStarted /\ ~cliQuery.called)
                 /\ (p.action = "search" /\ p.query # <<>> => searched(p.query))
                 /\ (p.action = "search" => ~serverStarted /\ shown = "none")

C9_Witness ==
    /\ pc = "runCLI" /\ ~isTTY
    /\ args = <<TokP, TokFoo>> /\ trim(data) = <<"w">>
    /\ cliQuery.query = <<"f", "o", "o", " ", "w">>

(* C10: parseArguments maps a token sequence to one action by its first    *)
(* token: none, -h, --help to help; -v, --version to version; mcp to       *)
(* server start; -p followed by at least one token to a search for the     *)
(* remaining tokens joined by single spaces; anything else (-p alone too)  *)
(* to a search for all tokens joined by single spaces.                     *)
C10_ParseArguments ==
    parsed # NoParse =>
        IF Len(args) = 0 THEN parsed.action = "help"
        ELSE IF args[1] \in {TokH, TokHelp} THEN parsed.action = "help"
        ELSE IF args[1] \in {TokV, TokVersion} THEN parsed.action = "version"
        ELSE IF args[1] = TokMcp THEN parsed.action = "mcp"
        ELSE IF args[1] = TokP /\ Len(args) >= 2
             THEN /\ parsed.action = "search"
                  /\ parsed.query = SpaceJoined(SubSeq(args, 2, Len(args)))
        ELSE /\ parsed.action = "search"
             /\ parsed.query = SpaceJoined(args)

C10_Witness ==
    /\ args = <<TokP>>
    /\ parsed.action = "search" /\ parsed.query = <<"-", "p">>

----------------------------------------------------------------------------
\* main resolved a search: not help, not version, not the server
SearchAction == Dispatched /\ ~serverStarted /\ shown = "none"

\* the query main resolved for a search action
ResolvedQuery ==
    IF StdinText # <<>>
    THEN IF Len(args) = 0 THEN StdinText
         ELSE parseArguments(args).query \o <<" ">> \o StdinText
    ELSE parseArguments(args).query

CliFailed == OnCLI /\ lc[1].outcome \in {"ApiError", "Timeout"}

(* C11 as stated: the CLI process exits with code 0 for help, version, a   *)
(* successful search and a search that ended in Timeout or ApiError; it    *)
(* never exits with code 1 after a handled outcome.                        *)
C11_ExitZeroAfterReportedError ==
    /\ (shown \in {"help", "version"} => proc \in {"running", "exit0"})
    /\ (OnCLI /\ lc[1].outcome \in Outcomes => proc \in {"running", "exit0"})

(* C11 as amended: the CLI process exits with code 0 for help, version and *)
(* a successful search, and with code 1 exactly when its search ended in   *)
(* Timeout or ApiError.                                                    *)
C11_ExitCodes ==
    /\ (shown \in {"help", "version"} => proc \in {"running", "exit0"})
    /\ (OnCLI /\ lc[1].outcome = "Success" => proc \in {"running", "exit0"})
    /\ (proc = "exit1" <=> CliFailed)

C11_Witness == CliFailed /\ lc[1].outcome = "Timeout" /\ proc = "exit1"

(* C12: a CLI search that ended in Timeout or ApiError has printed the     *)
(* error text to the error stream and terminated with a non-zero status;   *)
(* a CLI search that ended in Success never terminates with one.           *)
C12_ErrorExitsNonZero ==
    OnCLI =>
        /\ (lc[1].outcome \in {"ApiError", "Timeout"}
               => /\ proc \notin {"running", "exit0"}
                  /\ Len(lc[1].errPrinted) > 3
                  /\ lc[1].errPrinted[1] = "Error after "
                  /\ SubSeq(lc[1].errPrinted, 4, Len(lc[1].errPrinted))
                        = (IF lc[1].err.isError THEN lc[1].err.message
                           ELSE <<"Unknown error occurred">>))
        /\ (lc[1].outcome = "Success"
               => proc \in {"running", "exit0"} /\ lc[1].errPrinted = <<>>)

C12_Witness ==
    /\ OnCLI /\ lc[1].outcome = "ApiError" /\ ~lc[1].err.isError
    /\ proc = "exit1" /\ lc[1].errPrinted # <<>>

(* C13 as stated: a transcript is opened exactly once per CLI search       *)
(* action and never otherwise; help and version issue no request.          *)
C13_TranscriptPerSearchAction ==
    /\ (Dispatched /\ SearchAction => stream.opens = 1)
    /\ (~SearchAction => stream.opens = 0)
    /\ (shown \in {"help", "version"} => \A i \in Ids : lc[i].requests = 0)

(* C13 as amended: a transcript is opened exactly once per CLI search      *)
(* action whose query is not empty, before the request is issued, and      *)
(* never otherwise: not for a search action with an empty query, not for   *)
(* help, version or server start, not by an o3-search invocation; help and *)
(* version issue no request.                                               *)
C13_TranscriptPerSearch ==
    /\ stream.opens <= 1
    /\ (stream.opens = 1 <=> SearchAction /\ ResolvedQuery # <<>>)
    /\ (stream.opens = 1 <=> OnCLI)
    /\ (OnCLI => lc[1].requests = 1 /\ Len(stream.written) >= 7)
    /\ (serverStarted => stream.opens = 0)
    /\ (shown \in {"help", "version"}
           => stream.opens = 0 /\ \A i \in Ids : lc[i].requests = 0)

C13_Witness ==
    /\ OnCLI /\ stream.opens = 1 /\ lc[1].requests = 1
    /\ lc[1].phase = "returned" /\ StdinText # <<>>

----------------------------------------------------------------------------
(* Several dr search runs and the cache directory they share. A transcript *)
(* file is named after the second in which setupLogFile ran; a file is a    *)
(* sequence of cells, one per chunk-sized range of bytes, each holding the  *)
(* chunk last written there and the run that wrote it.                      *)

RunIds == 1..MaxRuns

\* a range of the file no run has written: the gap a write past the end leaves
Hole == [owner |-> 0, n |-> 0]

\* a write at the position of the run's own open file description
putAt(cells, off, c) ==
    [j \in 1..(IF off > Len(cells) THEN off ELSE Len(cells)) |->
        IF j = off THEN c ELSE IF j <= Len(cells) THEN cells[j] ELSE Hole]

InitLog ==
    /\ ProcessAtStart
    /\ keyEnv = DefaultKeyEnv
    /\ config = [loaded |-> TRUE, apiKey |-> loadApiKey(keyEnv.env, keyEnv.file)]
    /\ cache = EmptyCache

\* the wall clock reaches the next second
SecondPasses ==
    /\ cache.now < MaxSeconds
    /\ cache' = [cache EXCEPT !.now = @ + 1]
    /\ UNCHANGED <<procVars, keyEnv, config>>

\* setupLogFile of run r: the file named after the current second is created,
\* or truncated if it exists (flags 'w')
RunSetupLogFile(r) ==
    /\ cache.run[r].path = -1
    /\ cache' = [cache EXCEPT !.files[cache.now] = [exists |-> TRUE, cells |-> <<>>],
                              !.run[r].path = cache.now]
    /\ UNCHANGED <<procVars, keyEnv, config>>

\* logStream.write of run r: its next chunk goes where its own stream stands
RunWrite(r) ==
    /\ cache.run[r].path # -1
    /\ cache.run[r].written < MaxRunWrites
    /\ cache' = [cache EXCEPT
                    !.files[cache.run[r].path].cells =
                        putAt(@, cache.run[r].written + 1,
                              [owner |-> r, n |-> cache.run[r].written + 1]),
                    !.run[r].written = @ + 1]
    /\ UNCHANGED <<procVars, keyEnv, config>>

NextLog ==
    \/ SecondPasses
    \/ \E r \in RunIds : RunSetupLogFile(r)
    \/ \E r \in RunIds : RunWrite(r)

SpecLog == InitLog /\ [][NextLog]_vars

----------------------------------------------------------------------------
\* a value with one leading and one trailing quote character removed
Unquoted(v) ==
    LET lead == IF Len(v) > 0 /\ v[1] \in Quotes THEN 1 ELSE 0
        trail == IF Len(v) > lead /\ v[Len(v)] \in Quotes THEN 1 ELSE 0
    IN  SubSeq(v, 1 + lead, Len(v) - trail)

\* the lines of the file whose trimmed text starts with OPENAI_API_KEY=
KeyLineIndexes(file) ==
    {j \in 1..Len(file.lines) :
        Len(trim(file.lines[j])) > 0 /\ trim(file.lines[j])[1] = KeyPrefix}

Min(S) == CHOOSE x \in S : \A y \in S : x <= y

(* C14: loadApiKey returns the environment variable when it is set to a    *)
(* non-empty value, whatever the file holds; otherwise the value of the    *)
(* first line of the file whose trimmed text starts with OPENAI_API_KEY=,  *)
(* without one leading and one trailing quote; otherwise nothing; a file   *)
(* that cannot be read yields nothing and a warning.                       *)
C14_LoadApiKey ==
    config.loaded =>
        LET env == keyEnv.env
            file == keyEnv.file
            key == config.apiKey
            idx == KeyLineIndexes(file)
        IN  IF env.set /\ env.val # <<>>
            THEN key.has /\ key.val = env.val /\ ~key.warned
            ELSE IF file.exists /\ file.readable /\ idx # {}
            THEN /\ key.has /\ ~key.warned
                 /\ key.val = Unquoted(Tail(trim(file.lines[Min(idx)])))
            ELSE /\ ~key.has
                 /\ (key.warned <=> file.exists /\ ~file.readable)

C14_Witness ==
    /\ config.loaded /\ ~keyEnv.env.set
    /\ keyEnv.file.lines = << <<"#", KeyPrefix, "a">>, <<" ", KeyPrefix, "'", "b", " ">> >>
    /\ config.apiKey = [has |-> TRUE, val |-> <<"b">>, warned |-> FALSE]

(* C15: in every CLI search run the transcript stream is ended exactly     *)
(* once, when the outcome is produced, and never before; nothing is        *)
(* written to it after the end, and the periodic timer is inactive from    *)
(* the end on, so no progress callback runs after it, on the success path  *)
(* and on the error and timeout paths alike.                               *)
C15_ClosedOnceAtOutcome ==
    OnCLI =>
        /\ stream.ends <= 1
        /\ (stream.ends = 1 <=> lc[1].produced > 0)
        /\ (stream.ends = 1 <=> lc[1].outcome \in Outcomes)
        /\ stream.writeAfterEnd = 0
        /\ (stream.ends > 0 => ~lc[1].intervalArmed)
        /\ (stream.ends > 0 => stream.written[Len(stream.written)].k \in {"Completed", "Failed"})

C15_Witness ==
    /\ OnCLI /\ stream.ends = 1 /\ proc = "exit0"
    /\ lc[1].outcome = "Success" /\ lc[1].progressCount = MaxTicks

(* C16: two CLI search runs never have the same transcript file, and every *)
(* chunk a run has written is still in its file where the run wrote it: no *)
(* other run's opening of a transcript truncated it and no other run's     *)
(* write replaced it. Violated by two runs whose setupLogFile falls in the *)
(* same second.                                                            *)
C16_TranscriptsExclusive ==
    /\ \A r, q \in RunIds :
          r # q /\ cache.run[r].path # -1 /\ cache.run[q].path # -1
              => cache.run[r].path # cache.run[q].path
    /\ \A r \in RunIds :
          cache.run[r].path # -1 =>
              LET cells == cache.files[cache.run[r].path].cells
              IN  \A n \in 1..cache.run[r].written :
                     n <= Len(cells) /\ cells[n] = [owner |-> r, n |-> n]

(* C17: when two o3-search invocations overlap, a step of one of them      *)
(* (its settlement, its timeout, its tick) leaves the other's lifecycle    *)
(* as it was (start, check counter, both timers, outcome) and leaves it    *)
(* able to go on: the process that runs the other's timers and will        *)
(* produce its outcome is still running. Violated by the rejection of one  *)
(* invocation's call, which ends the process while the other waits.        *)
C17_IndependentLifecycles ==
    [][\A i, j \in Ids :
          i # j /\ lc'[i] # lc[i] /\ lc[j].phase = "waiting"
              => lc'[j] = lc[j] /\ proc' = "running"]_vars

\* the race of the lifecycle is decided
Decided(l) == l.race \in {"fulfilled", "rejected"}

IsPrefix(u, w) == Len(u) <= Len(w) /\ SubSeq(w, 1, Len(u)) = u

(* C18 as stated: once the race is decided, if the call settled first both *)
(* timers are inactive; if the timeout elapsed first the periodic timer is *)
(* inactive and, in the process still running, the outbound call is no     *)
(* longer pending. Violated on the server surface, where nothing cancels   *)
(* the call when the timeout fires.                                        *)
C18_LoserDeactivated ==
    \A i \in Ids :
        Decided(lc[i]) =>
            /\ (lc[i].outcome # "Timeout" => ~lc[i].timeoutArmed /\ ~lc[i].intervalArmed)
            /\ (lc[i].outcome = "Timeout" =>
                    /\ ~lc[i].intervalArmed
                    /\ (proc = "running" => lc[i].call # "pending"))

(* C18: after every step, a lifecycle whose race is decided has both its   *)
(* timers inactive, whichever side won; the firing of the timeout leaves   *)
(* the outbound call as it was (pending: it is not cancelled), and what    *)
(* the call does later changes neither the Timeout outcome nor what was    *)
(* produced for it; and every step keeps what was written to the           *)
(* transcript so far as a prefix of what is written after it.              *)
C18_RaceDecided ==
    [][/\ \A i \in Ids :
             Decided(lc'[i]) => ~lc'[i].timeoutArmed /\ ~lc'[i].intervalArmed
       /\ \A i \in Ids :
             ~lc[i].timeoutFired /\ lc'[i].timeoutFired
                 => lc'[i].call = lc[i].call /\ lc'[i].call = "pending"
       /\ \A i \in Ids :
             lc[i].outcome = "Timeout"
                 => /\ lc'[i].outcome = "Timeout"
                    /\ lc'[i].produced = lc[i].produced
                    /\ lc'[i].content = lc[i].content
       /\ IsPrefix(stream.written, stream'.written)]_vars

C18_Witness ==
    /\ serverStarted /\ proc = "running"
    /\ lc[1].outcome = "Timeout" /\ lc[1].call = "pending"
    /\ ~lc[1].intervalArmed /\ lc[1].progressCount > 0

(* C19: a step in which a lifecycle's check counter changes is a progress  *)
(* tick and nothing else: the counter grows by one, one notification goes  *)
(* to the console and, on the CLI surface, one progress line is appended   *)
(* to the transcript; the call's status, both timers, the race, the        *)
(* outcome and everything produced, the other lifecycles and the process   *)
(* are as before.                                                          *)
C19_TickObservational ==
    [][\A i \in Ids :
          lc'[i].progressCount # lc[i].progressCount =>
              /\ lc'[i] = [lc[i] EXCEPT !.progressCount = lc[i].progressCount + 1,
                                        !.consoleTicks = lc[i].consoleTicks + 1]
              /\ lc'[i].call = "pending" /\ lc'[i].timeoutArmed /\ lc'[i].intervalArmed
              /\ lc'[i].outcome = "none"
              /\ \A j \in Ids : j # i => lc'[j] = lc[j]
              /\ proc' = proc /\ pc' = pc /\ unhandled' = unhandled
              /\ IF OnCLI
                 THEN /\ Len(stream'.written) = Len(stream.written) + 1
                      /\ IsPrefix(stream.written, stream'.written)
                      /\ stream'.written[Len(stream'.written)].k = "Progress"
                      /\ stream'.opens = stream.opens /\ stream'.ends = stream.ends
                      /\ stream'.file = stream.file
                 ELSE stream' = stream]_vars

C19_Witness ==
    /\ OnCLI /\ proc = "running"
    /\ lc[1].progressCount = MaxTicks /\ ProgressLines(stream.written) = MaxTicks
    /\ lc[1].call = "pending" /\ lc[1].timeoutArmed /\ lc[1].intervalArmed
    /\ lc[1].outcome = "none"

\* the number of progress lines among the first j chunks written
ProgressLinesUpTo(w, j) == Cardinality({m \in 1..j : w[m].k = "Progress"})

(* C20: in every CLI search run the check counter equals the number of     *)
(* progress lines written to the transcript, the j-th progress line        *)
(* carries the check index j, and when the run ended in ApiError or        *)
(* Timeout the error section holds the line "Progress checks completed: n" *)
(* exactly when n > 0, n being the number of progress lines.               *)
C20_CounterMatchesTranscript ==
    OnCLI =>
        LET w == stream.written
            n == lc[1].progressCount
            done == {j \in 1..Len(w) : w[j].k = "ChecksCompleted"}
        IN  /\ ProgressLines(w) = n
            /\ \A j \in 1..Len(w) :
                  w[j].k = "Progress" => w[j].text[4] = ToString(ProgressLinesUpTo(w, j))
            /\ (lc[1].outcome \in {"ApiError", "Timeout"} =>
                   /\ Cardinality(done) = (IF ProgressLines(w) > 0 THEN 1 ELSE 0)
                   /\ \A j \in done :
                         /\ w[j].text = <<"Progress checks completed: ",
                                          ToString(ProgressLines(w))>>
                         /\ Section(w[j]) = "error")
            /\ (lc[1].outcome \notin {"ApiError", "Timeout"} => done = {})

C20_Witness ==
    /\ OnCLI /\ lc[1].outcome = "Timeout" /\ lc[1].progressCount = MaxTicks
    /\ \E j \in 1..Len(stream.written) :
          stream.written[j].text = <<"Progress checks completed: ", ToString(MaxTicks)>>

(* C21: every request the CLI surface issues carries a non-empty query,    *)
(* the one resolved from args and stdin; and when main has dispatched a    *)
(* search whose resolved query is empty, no transcript was opened and no   *)
(* request was issued, for every combination of args and stdin.            *)
C21_RequestsCarryQuery ==
    /\ (~serverStarted /\ (\E i \in Ids : lc[i].requests > 0)
            => OnCLI /\ cliQuery.query # <<>> /\ cliQuery.query = ResolvedQuery)
    /\ (OnCLI => stream.written[3] = Chunk("Query", <<"**Query**: ">> \o ResolvedQuery))
    /\ (SearchAction /\ ResolvedQuery = <<>>
            => /\ ~OnCLI /\ stream.opens = 0 /\ stream.written = <<>>
               /\ \A i \in Ids : lc[i].requests = 0)

C21_Witness ==
    /\ ~isTTY /\ data = <<" ">> /\ args = <<TokEmpty>>
    /\ SearchAction /\ ResolvedQuery = <<>> /\ pc = "done"
    /\ stream.opens = 0 /\ lc[1].requests = 0

(* C22: a lifecycle that has started has issued exactly one outbound       *)
(* request, and had issued it when its timers were armed; a lifecycle that *)
(* has not started has issued none. No step adds a request to a lifecycle  *)
(* that has one: after ApiError or Timeout neither runCLI nor the handler  *)
(* issues the request again.                                               *)
C22_OneRequestPerLifecycle ==
    \A i \in Ids :
        /\ (lc[i].phase = "idle" => lc[i].requests = 0 /\ lc[i].race = "none")
        /\ (lc[i].phase # "idle" => lc[i].requests = 1 /\ lc[i].issuedAtArm = 1)
        /\ (lc[i].timeoutArmed \/ lc[i].intervalArmed => lc[i].requests = 1)
        /\ (lc[i].outcome \in {"ApiError", "Timeout"}
                => lc[i].requests = 1 /\ lc[i].phase = "returned")

C22_Witness ==
    /\ serverStarted /\ proc = "running"
    /\ lc[1].outcome = "Timeout" /\ lc[1].call = "resolved" /\ lc[1].requests = 1
    /\ lc[2].phase = "waiting" /\ lc[2].requests = 1

====
